---- MODULE Spec2Model ----
(***************************************************************************)
(* DNA Motif Analyzer (main.py): the sequence loader, the overlapping      *)
(* motif search, the binning of hits, and the App.run handler that chains  *)
(* them and exports hits.csv, bins.csv and motif_plot.png.                 *)
(*                                                                         *)
(* Strings are sequences of one-character strings.  A call either returns  *)
(* (exc = "") or raises ValueError with a message (exc = the message).     *)
(***************************************************************************)
EXTENDS Integers, Sequences, FiniteSets, TLC

\* ---------------------------------------------------------------- bounds
MaxTextLen == 4      \* characters of a file text handed to the loader
MaxSeqLen == 4       \* length of a sequence handed to the matcher / aggregator
MaxMotifLen == 2     \* characters of a motif handed to the matcher
MaxHits == 2         \* length of a hit list handed to the aggregator
MaxOffset == 5       \* largest hit offset handed to the aggregator
MaxBin == 3          \* largest bin_size handed to the aggregator
MaxFileLen == 3      \* characters of the file analysed by App.run
MaxEntryLen == 2     \* characters typed into the motif entry

\* ------------------------------------------------------------ characters
VALID_DNA == {"A", "C", "G", "T", "N"}

Whitespace == {" ", "\t", "\n"}

\* str.upper() on one character
Upper(c) ==
  CASE c = "a" -> "A"
    [] c = "c" -> "C"
    [] c = "x" -> "X"
    [] OTHER -> c

\* code point of a character (the order sorted() uses)
Ord(c) ==
  CASE c = "\t" -> 9
    [] c = "\n" -> 10
    [] c = " " -> 32
    [] c = "-" -> 45
    [] c = "0" -> 48
    [] c = "2" -> 50
    [] c = ">" -> 62
    [] c = "A" -> 65
    [] c = "C" -> 67
    [] c = "G" -> 71
    [] c = "N" -> 78
    [] c = "T" -> 84
    [] c = "X" -> 88
    [] c = "a" -> 97
    [] c = "c" -> 99
    [] c = "f" -> 102
    [] c = "g" -> 103
    [] c = "x" -> 120
    [] OTHER -> 0

\* all strings over chars of length at most n
StringsUpTo(chars, n) == UNION {[1..k -> chars] : k \in 0..n}

\* ------------------------------------------------------- string methods
\* str.upper()
upper(s) == [i \in 1..Len(s) |-> Upper(s[i])]

RECURSIVE lstrip(_)
lstrip(s) ==
  IF s # <<>> /\ Head(s) \in Whitespace THEN lstrip(Tail(s)) ELSE s

RECURSIVE rstrip(_)
rstrip(s) ==
  IF s # <<>> /\ s[Len(s)] \in Whitespace
    THEN rstrip(SubSeq(s, 1, Len(s) - 1))
    ELSE s

\* str.strip()
strip(s) == rstrip(lstrip(s))

\* str.splitlines(): the lines of s, split at line breaks
RECURSIVE splitlines(_)
splitlines(s) ==
  IF s = <<>> THEN <<>>
  ELSE IF \E i \in 1..Len(s) : s[i] = "\n"
    THEN LET i == CHOOSE j \in 1..Len(s) :
                    s[j] = "\n" /\ \A k \in 1..(j - 1) : s[k] # "\n"
         IN <<SubSeq(s, 1, i - 1)>> \o splitlines(SubSeq(s, i + 1, Len(s)))
    ELSE <<s>>

\* "".join(parts)
RECURSIVE join(_)
join(parts) ==
  IF parts = <<>> THEN <<>> ELSE Head(parts) \o join(Tail(parts))

\* str.replace(" ", "")
replace_space(s) == SelectSeq(s, LAMBDA c : c # " ")

\* set(s)
set(s) == {s[i] : i \in 1..Len(s)}

\* sorted() with the order reversed
RECURSIVE sorted_desc(_)
sorted_desc(S) ==
  IF S = {} THEN <<>>
  ELSE LET m == CHOOSE c \in S : \A d \in S : Ord(c) >= Ord(d)
       IN <<m>> \o sorted_desc(S \ {m})

\* sorted(S) for a set of characters
RECURSIVE sorted(_)
sorted(S) ==
  IF S = {} THEN <<>>
  ELSE LET m == CHOOSE c \in S : \A d \in S : Ord(c) <= Ord(d)
       IN <<m>> \o sorted(S \ {m})

\* ------------------------------------------------------ call outcomes
Return(v) == [exc |-> "", value |-> v]
Raise(msg, detail) == [exc |-> msg, value |-> detail]

\* what Path(path) finds on disk: a file with its text, or nothing
File(t) == [exists |-> TRUE, text |-> t]
NoFile == [exists |-> FALSE, text |-> <<>>]
Pending == [exc |-> "pending", value |-> <<>>]

\* ---------------------------------------------------- read_sequence_file
\* [ln.strip() for ln in lines if ln.strip()]
stripped_lines(lines) ==
  LET kept == SelectSeq(lines, LAMBDA ln : strip(ln) # <<>>)
  IN [i \in 1..Len(kept) |-> strip(kept[i])]

\* file is what the disk holds at path
read_sequence_file(path, file) ==
  IF path = <<>> THEN Raise("Nie wybrano pliku.", <<>>)
  ELSE IF ~file.exists THEN Raise("Plik nie istnieje.", <<>>)
  ELSE
    LET text == strip(file.text) IN
    IF text = <<>> THEN Raise("Plik jest pusty.", <<>>)
    ELSE
      LET lines == splitlines(text)
          is_fasta == lines[1] # <<>> /\ lines[1][1] = ">"
          header == IF is_fasta THEN strip(lines[1]) ELSE <<>>
          seq_lines == IF is_fasta THEN stripped_lines(Tail(lines))
                                   ELSE stripped_lines(lines)
          seq == replace_space(upper(join(seq_lines)))
          bad == sorted(set(seq) \ VALID_DNA)
      IN IF bad # <<>>
           THEN Raise("Niepoprawne znaki w sekwencji", bad)
           ELSE Return([header |-> header, seq |-> seq])

\* -------------------------------------------------- find_motif_positions
\* the lookahead (?=(motif)) succeeds at 0-based offset pos of seq
lookahead(motif, seq, pos) ==
  /\ pos + Len(motif) <= Len(seq)
  /\ SubSeq(seq, pos + 1, pos + Len(motif)) = motif

\* finditer for the plain pattern, without the lookahead: a match consumes
\* the motif and the scan goes on behind it
RECURSIVE finditer_nonoverlapping(_, _, _)
finditer_nonoverlapping(motif, seq, pos) ==
  IF pos > Len(seq) THEN <<>>
  ELSE IF lookahead(motif, seq, pos)
    THEN <<pos>> \o finditer_nonoverlapping(motif, seq, pos + Len(motif))
    ELSE finditer_nonoverlapping(motif, seq, pos + 1)

\* finditer reporting m.end() of the captured group instead of m.start()
RECURSIVE finditer_end(_, _, _)
finditer_end(motif, seq, pos) ==
  IF pos > Len(seq) THEN <<>>
  ELSE IF lookahead(motif, seq, pos)
    THEN <<pos + Len(motif)>> \o finditer_end(motif, seq, pos + 1)
    ELSE finditer_end(motif, seq, pos + 1)

\* [m.start() for m in pattern.finditer(seq)]: the scan tries every offset
\* from pos to len(seq); a lookahead match is empty, so the scan moves on by
\* one character after it
RECURSIVE finditer(_, _, _)
finditer(motif, seq, pos) ==
  IF pos > Len(seq) THEN <<>>
  ELSE IF lookahead(motif, seq, pos)
    THEN <<pos>> \o finditer(motif, seq, pos + 1)
    ELSE finditer(motif, seq, pos + 1)

find_motif_positions(seq, motif_arg) ==
  LET motif == strip(upper(motif_arg)) IN
  IF motif = <<>> THEN Raise("Motyw nie moze byc pusty.", <<>>)
  ELSE IF set(motif) \ VALID_DNA # {}
    THEN Raise("Motyw moze zawierac tylko A,C,G,T,N.", <<>>)
  ELSE Return(finditer(motif, seq, 0))

\* -------------------------------------------------------- segment_counts
\* seq_len // bin_size instead of the ceiling
ceil_div_floor(a, b) == a \div b

\* int(np.ceil(a / b)) for b > 0
ceil_div(a, b) == IF a % b = 0 THEN a \div b ELSE (a \div b) + 1

MaxOf(S) == CHOOSE x \in S : \A y \in S : y <= x

\* bincount marking the values that occur instead of counting them
bincount_presence(bins, n) ==
  LET size == IF bins = <<>> THEN n ELSE MaxOf({n, MaxOf(set(bins)) + 1})
  IN [i \in 1..size |-> IF \E k \in 1..Len(bins) : bins[k] = i - 1
                          THEN 1 ELSE 0]

\* np.bincount(bins, minlength=n): one counter per value 0 .. max(bins), and
\* at least n counters; counts[i + 1] is the counter of value i
bincount(bins, n) ==
  LET size == IF bins = <<>> THEN n ELSE MaxOf({n, MaxOf(set(bins)) + 1})
  IN [i \in 1..size |-> Cardinality({k \in 1..Len(bins) : bins[k] = i - 1})]

\* pd.DataFrame({"bin_index": index, "count": counts}): one row per element
DataFrame(index, counts) ==
  IF Len(index) # Len(counts)
    THEN Raise("All arrays must be of the same length", <<>>)
    ELSE Return([i \in 1..Len(index) |->
                   [bin_index |-> index[i], count |-> counts[i]]])

\* segment_counts numbering the bins from 1: np.arange(1, n_bins + 1)
segment_counts_from_1(seq_len, positions0, bin_size) ==
  IF bin_size <= 0 THEN Raise("Bin size musi byc > 0.", <<>>)
  ELSE
    LET n_bins == ceil_div(seq_len, bin_size)
        arange == [i \in 1..n_bins |-> i]
    IN IF Len(positions0) = 0
         THEN DataFrame(arange, [i \in 1..n_bins |-> 0])
         ELSE
           LET bins == [k \in 1..Len(positions0) |->
                          positions0[k] \div bin_size]
           IN IF \E k \in 1..Len(bins) : bins[k] < 0
                THEN Raise("'list' argument must have no negative elements",
                           <<>>)
                ELSE DataFrame(arange, bincount(bins, n_bins))

segment_counts(seq_len, positions0, bin_size) ==
  IF bin_size <= 0 THEN Raise("Bin size musi byc > 0.", <<>>)
  ELSE
    LET n_bins == ceil_div(seq_len, bin_size)
        arange == [i \in 1..n_bins |-> i - 1]
    IN IF Len(positions0) = 0
         THEN DataFrame(arange, [i \in 1..n_bins |-> 0])
         ELSE
           LET bins == [k \in 1..Len(positions0) |->
                          positions0[k] \div bin_size]
           IN IF \E k \in 1..Len(bins) : bins[k] < 0
                THEN Raise("'list' argument must have no negative elements",
                           <<>>)
                ELSE DataFrame(arange, bincount(bins, n_bins))

\* --------------------------------------------------------------- App.run
Digits == {"0", "2"}

Digit(c) == CASE c = "0" -> 0 [] c = "2" -> 2 [] OTHER -> 0

RECURSIVE digits_value(_)
digits_value(s) ==
  IF s = <<>> THEN 0
  ELSE digits_value(SubSeq(s, 1, Len(s) - 1)) * 10 + Digit(s[Len(s)])

\* int() losing the sign
int_unsigned(s) ==
  LET digits == IF s[1] = "-" THEN Tail(s) ELSE s
  IN IF digits = <<>> \/ \E i \in 1..Len(digits) : digits[i] \notin Digits
       THEN Raise("invalid literal for int() with base 10", s)
       ELSE Return(digits_value(digits))

\* int(s) for a non-empty s: an optional sign, then one or more digits
int(s) ==
  LET digits == IF s[1] = "-" THEN Tail(s) ELSE s
      value == digits_value(digits)
  IN IF digits = <<>> \/ \E i \in 1..Len(digits) : digits[i] \notin Digits
       THEN Raise("invalid literal for int() with base 10", s)
       ELSE Return(IF s[1] = "-" THEN 0 - value ELSE value)

\* Path(path): the disk holds one file, "f", with the given text
Lookup(path, text) == IF path = <<"f">> THEN File(text) ELSE NoFile

\* the locals of run before its first statement
NoFrame ==
  [line |-> 0, exc |-> "", detail |-> <<>>, path |-> <<>>, motif |-> <<>>,
   bin_text |-> <<>>, bin_size |-> 0, header |-> <<>>, seq |-> <<>>, positions0 |-> <<>>,
   bins_df |-> <<>>]

\* a statement of run raised: the locals at that line and the ValueError
raised_at(f, line, e) == [f EXCEPT !.line = line, !.exc = e.exc, !.detail = e.value]

\* line 156 with the outcome b of segment_counts
bins_assigned(f, b) ==
  IF b.exc # "" THEN raised_at(f, 156, b)
  ELSE [f EXCEPT !.line = 156, !.bins_df = b.value]

\* line 155 with the outcome p of find_motif_positions, then line 156
positions_assigned(f, p) ==
  IF p.exc # "" THEN raised_at(f, 155, p)
  ELSE bins_assigned([f EXCEPT !.positions0 = p.value],
                     segment_counts(Len(f.seq), p.value, f.bin_size))

\* line 154 with the outcome r of read_sequence_file, then line 155
sequence_assigned(f, r) ==
  IF r.exc # "" THEN raised_at(f, 154, r)
  ELSE positions_assigned([f EXCEPT !.header = r.value.header,
                                    !.seq = r.value.seq],
                          find_motif_positions(r.value.seq, f.motif))

\* line 152 with the outcome n of int(), then line 154
bin_size_assigned(f, n, text) ==
  IF n.exc # "" THEN raised_at(f, 152, n)
  ELSE sequence_assigned([f EXCEPT !.bin_size = n.value],
                         read_sequence_file(f.path, Lookup(f.path, text)))

\* lines 149-152: the bin size entry is checked and converted
bin_checked(f, text) ==
  IF f.bin_text = <<>> THEN raised_at(f, 150, Raise("Podaj bin size.", <<>>))
  ELSE bin_size_assigned(f, int(f.bin_text), text)

\* lines 146-156 of run: the locals when the analysis is done (line = 156,
\* exc = "") or when a statement raised (line = that statement, exc = the
\* message of the ValueError); bin_text is what self.bin_var.get() gives
try_body(file_var, motif_var, bin_var, text) ==
  bin_checked([NoFrame EXCEPT !.path = strip(file_var),
                              !.motif = upper(strip(motif_var)),
                              !.bin_text = bin_var],
              text)

\* positions0[:10]
FirstShown == 10

\* pd.DataFrame({"motif": motif, "start_1": [p + 1 for p in positions0]})
hits_df(motif, positions0) ==
  [k \in 1..Len(positions0) |->
     [motif |-> motif, start_1 |-> positions0[k] + 1]]

\* the lines logged by a finished analysis
log_lines(f) ==
  << [text |-> "Dlugosc sekwencji", n |-> Len(f.seq)],
     [text |-> "Liczba wystapien motywu", motif |-> f.motif,
      n |-> Len(f.positions0)],
     [text |-> "Pierwsze pozycje",
      first |-> [k \in 1..(IF Len(f.positions0) < FirstShown
                             THEN Len(f.positions0) ELSE FirstShown) |->
                   f.positions0[k] + 1]],
     [text |-> "Pliki zapisane w"],
     [text |-> "Czas analizy"] >>

\* the bar chart drawn on the axes
bar_chart(f) == <<[title |-> f.motif, bars |-> f.bins_df]>>

\* ----------------------------------------------------------------- state
VARIABLES
  call,            \* the function under call and its arguments, or the App
  ret,             \* what the call returned or raised
  out,             \* the text widget of the App
  ax,              \* the axes of the App's figure
  messagebox,      \* the error dialog on screen, <<>> if none
  out_dir,         \* the output directory exists
  hits_csv,        \* output/hits.csv
  bins_csv,        \* output/bins.csv
  motif_plot_png,  \* output/motif_plot.png
  frame            \* the locals of the run in progress, NoFrame if none

files == <<out_dir, hits_csv, bins_csv, motif_plot_png>>
app == <<out, ax, messagebox, out_dir, hits_csv, bins_csv, motif_plot_png,
         frame>>
vars == <<call, ret, out, ax, messagebox, out_dir, hits_csv, bins_csv,
          motif_plot_png, frame>>

TextChars == {"A", "c", "X", " ", "\t", "\n", ">"}
SeqChars == {"A", "C"}
MotifChars == {"A", "C", "a", " ", "X"}
FileChars == {"A", "\n", ">"}
MotifEntryChars == {"A", "X"}
\* what the bin size entry may hold: nothing, zero, positive and negative
\* numbers, and text that is no number
BinEntries ==
  {<<>>, <<"0">>, <<"2">>, <<"0", "2">>, <<"2", "0">>, <<"-", "2">>,
   <<"-">>, <<"2", "-">>}

ReadCalls ==
  {[fn |-> "read_sequence_file", path |-> <<"f">>, file |-> File(t)] :
     t \in StringsUpTo(TextChars, MaxTextLen)}

FindCalls ==
  {[fn |-> "find_motif_positions", seq |-> s, motif |-> m] :
     s \in StringsUpTo(SeqChars, MaxSeqLen),
     m \in StringsUpTo(MotifChars, MaxMotifLen)}

SegmentCalls ==
  {[fn |-> "segment_counts", seq_len |-> L, positions0 |-> h, bin_size |-> b] :
     L \in 0..MaxSeqLen, h \in StringsUpTo(0..MaxOffset, MaxHits),
     b \in (-1)..MaxBin}

TheApp == [fn |-> "App"]

\* what the file entry holds and the text of the file "f" on disk
Sources ==
  {[file_var |-> v, text |-> <<>>] : v \in {<<>>, <<" ">>, <<"g">>}}
    \cup {[file_var |-> <<"f">>, text |-> t] :
            t \in StringsUpTo(FileChars, MaxFileLen)}

Init ==
  /\ call \in ReadCalls \cup FindCalls \cup SegmentCalls \cup {TheApp}
  /\ ret = Pending
  /\ out = <<>>
  /\ ax = <<>>
  /\ messagebox = <<>>
  /\ out_dir = FALSE
  /\ hits_csv = NoFile
  /\ bins_csv = NoFile
  /\ motif_plot_png = NoFile
  /\ frame = NoFrame

CallRead ==
  /\ call.fn = "read_sequence_file"
  /\ ret = Pending
  /\ ret' = read_sequence_file(call.path, call.file)
  /\ UNCHANGED <<call, app>>

CallFind ==
  /\ call.fn = "find_motif_positions"
  /\ ret = Pending
  /\ ret' = find_motif_positions(call.seq, call.motif)
  /\ UNCHANGED <<call, app>>

CallSegment ==
  /\ call.fn = "segment_counts"
  /\ ret = Pending
  /\ ret' = segment_counts(call.seq_len, call.positions0, call.bin_size)
  /\ UNCHANGED <<call, app>>

\* the rest of run creating the output directory whatever the analysis gave
run_outcome_mkdir_first(f) ==
  /\ frame' = f
  /\ out_dir' = TRUE
  /\ IF f.exc = ""
       THEN /\ hits_csv' = File(hits_df(f.motif, f.positions0))
            /\ bins_csv' = File(f.bins_df)
            /\ out' = log_lines(f)
            /\ ax' = bar_chart(f)
            /\ motif_plot_png' = File(bar_chart(f))
            /\ messagebox' = <<>>
       ELSE /\ out' = <<>>
            /\ ax' = <<>>
            /\ messagebox' = <<[title |-> "Blad", message |-> f.exc,
                                detail |-> f.detail]>>
            /\ UNCHANGED <<hits_csv, bins_csv, motif_plot_png>>

\* lines 143-144 and 158-195 of run, f being the locals after lines 146-156:
\* the widgets are cleared; then either the exports, the log and the plot, or
\* the error dialog of the except clause
run_outcome(f) ==
  /\ frame' = f
  /\ IF f.exc = ""
       THEN /\ out_dir' = TRUE
            /\ hits_csv' = File(hits_df(f.motif, f.positions0))
            /\ bins_csv' = File(f.bins_df)
            /\ out' = log_lines(f)
            /\ ax' = bar_chart(f)
            /\ motif_plot_png' = File(bar_chart(f))
            /\ messagebox' = <<>>
       ELSE /\ out' = <<>>
            /\ ax' = <<>>
            /\ messagebox' = <<[title |-> "Blad", message |-> f.exc,
                                detail |-> f.detail]>>
            /\ UNCHANGED files

\* App.run with the entries holding file_var, motif_var and bin_var, and the
\* file "f" holding text: up to its last statement, or up to the error dialog
\* of the except clause, which blocks the window until it is closed
run(file_var, motif_var, bin_var, text) ==
  /\ call = TheApp
  /\ frame = NoFrame
  /\ run_outcome(try_body(file_var, motif_var, bin_var, text))
  /\ UNCHANGED <<call, ret>>

Run ==
  \E src \in Sources,
     motif_var \in StringsUpTo(MotifEntryChars, MaxEntryLen),
     bin_var \in BinEntries :
    run(src.file_var, motif_var, bin_var, src.text)

\* run returns to the main loop (after the user closed the error dialog, if
\* one was shown); its locals are gone
mainloop ==
  /\ call = TheApp
  /\ frame # NoFrame
  /\ frame' = NoFrame
  /\ messagebox' = <<>>
  /\ UNCHANGED <<call, ret, out, ax, files>>

Next == CallRead \/ CallFind \/ CallSegment \/ Run \/ mainloop

Spec == Init /\ [][Next]_vars

\* ---------------------------------------------------- notions of the claims
\* the call of fn has returned or raised
Done(fn) == call.fn = fn /\ ret.exc # "pending"

\* a run of the App has reached its end or its error dialog
InRun == call = TheApp /\ frame.line # 0

\* the message of the error dialog, "" when there is none
Shown == IF messagebox = <<>> THEN "" ELSE messagebox[1].message

RECURSIVE SumCounts(_)
SumCounts(table) ==
  IF table = <<>> THEN 0 ELSE Head(table).count + SumCounts(Tail(table))

\* ceil(L / b): the least n with n * b >= L
NumBins(L, b) == CHOOSE n \in 0..L : n * b >= L /\ \A k \in 0..(n - 1) : k * b < L

InRange(hits, L) == \A k \in 1..Len(hits) : 0 <= hits[k] /\ hits[k] < L

ValidDNA(s) == \A i \in 1..Len(s) : s[i] \in VALID_DNA

\* the offsets at which m occurs in s
Occurrences(s, m) ==
  {i \in 0..(Len(s) - Len(m)) : \A j \in 1..Len(m) : s[i + j] = m[j]}

StrictlyAscending(h) == \A k \in 1..(Len(h) - 1) : h[k] < h[k + 1]

\* a raw text begins with a header line
HasHeader(t) == strip(t) # <<>> /\ strip(t)[1] = ">"

\* the lines of a raw text after its header line, if it has one
BodyLines(t) ==
  IF HasHeader(t) THEN Tail(splitlines(strip(t))) ELSE splitlines(strip(t))

\* the non-whitespace characters after the header line, upper-cased
Body(t) == upper(SelectSeq(join(BodyLines(t)), LAMBDA c : c \notin Whitespace))

\* a text is a number: an optional minus sign and one or more digits
IsNumber(s) ==
  LET d == IF s # <<>> /\ s[1] = "-" THEN Tail(s) ELSE s
  IN d # <<>> /\ \A i \in 1..Len(d) :
       d[i] \in {"0", "1", "2", "3", "4", "5", "6", "7", "8", "9"}

\* a number that is zero or negative
NonPositive(s) ==
  IsNumber(s) /\ (s[1] = "-" \/ \A i \in 1..Len(s) : s[i] = "0")

SegmentPre ==
  /\ Done("segment_counts")
  /\ call.seq_len >= 1
  /\ call.bin_size >= 1
  /\ InRange(call.positions0, call.seq_len)

FindPre ==
  /\ Done("find_motif_positions")
  /\ ValidDNA(call.seq)
  /\ call.motif # <<>>
  /\ ValidDNA(call.motif)

EmptyInputMessage == "Plik jest pusty."
SequenceAlphabetMessage == "Niepoprawne znaki w sekwencji"
MotifAlphabetMessage == "Motyw moze zawierac tylko A,C,G,T,N."
LoadMessages ==
  {"Nie wybrano pliku.", "Plik nie istnieje.", EmptyInputMessage,
   SequenceAlphabetMessage}
BinNotNumberMessages ==
  {"Podaj bin size.", "invalid literal for int() with base 10"}
InvalidParameterMessages ==
  BinNotNumberMessages \cup {"Bin size musi byc > 0.", "Motyw nie moze byc pusty."}

\* ------------------------------------------------------------------- C1
\* C1: for seq_len >= 1, bin_size >= 1 and hits in [0, seq_len), the counts of
\* the table segment_counts returns sum to len(hits) and none is negative.
C1_CountsSumToHits ==
  SegmentPre =>
    /\ ret.exc = ""
    /\ SumCounts(ret.value) = Len(call.positions0)
    /\ \A i \in 1..Len(ret.value) : ret.value[i].count >= 0

\* two hits at the same offset, in a table of several bins
C1_Witness ==
  /\ SegmentPre
  /\ Len(call.positions0) = 2
  /\ call.positions0[1] = call.positions0[2]
  /\ Len(ret.value) >= 2

\* ------------------------------------------------------------------- C2
\* C2: for seq_len >= 1, bin_size >= 1 and hits in [0, seq_len), the table has
\* exactly ceil(seq_len / bin_size) rows, row i has bin_index i and counts the
\* hits p with p div bin_size = i; bins without hits are present with count 0.
C2_DenseTable ==
  SegmentPre =>
    /\ ret.exc = ""
    /\ Len(ret.value) = NumBins(call.seq_len, call.bin_size)
    /\ \A i \in 1..Len(ret.value) :
         /\ ret.value[i].bin_index = i - 1
         /\ ret.value[i].count =
              Cardinality({k \in 1..Len(call.positions0) :
                             call.positions0[k] \div call.bin_size = i - 1})

\* a shorter last bin, a bin with hits and a bin without
C2_Witness ==
  /\ SegmentPre
  /\ call.seq_len % call.bin_size # 0
  /\ \E i \in 1..Len(ret.value) : ret.value[i].count = 0
  /\ \E i \in 1..Len(ret.value) : ret.value[i].count > 0

\* ------------------------------------------------------------------- C3
\* C3: for a valid sequence and a valid non-empty motif, find_motif_positions
\* returns exactly the offsets where the motif occurs, overlapping occurrences
\* included, strictly ascending; the empty list when there is none.
C3_AllOccurrences ==
  FindPre =>
    /\ ret.exc = ""
    /\ set(ret.value) = Occurrences(call.seq, call.motif)
    /\ StrictlyAscending(ret.value)

\* "AA" in "AAAA" gives [0, 1, 2]
C3_Witness ==
  /\ FindPre
  /\ call.seq = <<"A", "A", "A", "A">>
  /\ call.motif = <<"A", "A">>
  /\ ret.value = <<0, 1, 2>>

\* ------------------------------------------------------------------- C4
\* C4: the loader fails with the empty-input error whenever no sequence
\* character remains after the header line and whitespace are removed, and it
\* never returns a sequence of length 0.
C4_EmptyInputRejected ==
  Done("read_sequence_file") =>
    /\ Body(call.file.text) = <<>> => ret.exc = EmptyInputMessage
    /\ ret.exc = "" => Len(ret.value.seq) >= 1

\* ------------------------------------------------------------------- C5
\* the loader's part of C5: a sequence with characters outside the alphabet
\* makes the loader fail with the invalid-alphabet error, which carries the
\* distinct offending characters in sorted order
C5_SequencePart ==
  LET offending == set(Body(call.file.text)) \ VALID_DNA IN
  (Done("read_sequence_file") /\ offending # {}) =>
    /\ ret.exc = SequenceAlphabetMessage
    /\ offending \subseteq set(ret.value)
    /\ set(ret.value) \cap VALID_DNA = {}
    /\ \A k \in 1..(Len(ret.value) - 1) : Ord(ret.value[k]) < Ord(ret.value[k + 1])

\* the motif, trimmed and upper-cased, has a character outside the alphabet
MotifOffending == set(strip(upper(call.motif))) \ VALID_DNA

BadBin == ~IsNumber(frame.bin_text) \/ NonPositive(frame.bin_text)

EmptyMotif == frame.motif = <<>>

\* the run raised and made no bin table
NoBinTable == frame.exc # "" /\ frame.bins_df = <<>> /\ messagebox # <<>>

\* C6 (as claimed): an analysis with a zero, negative or non-numeric bin_size,
\* or with an empty motif, fails with an invalid-parameter error and makes no
\* bin table.
C6_InvalidParameterError ==
  (InRun /\ (BadBin \/ EmptyMotif)) =>
    /\ NoBinTable
    /\ Shown \in InvalidParameterMessages

\* C6 (amended): such an analysis fails and makes no bin table; the error is
\* the invalid-parameter one unless an earlier step fails first: a blank or
\* non-numeric bin_size is reported before anything else, then an error of the
\* load, then the motif (empty, or outside the alphabet), then a non-positive
\* bin_size.
C6_FailsWithoutBinTable ==
  (InRun /\ (BadBin \/ EmptyMotif)) =>
    /\ NoBinTable
    /\ ~IsNumber(frame.bin_text) => Shown \in BinNotNumberMessages
    /\ IsNumber(frame.bin_text) =>
         \/ Shown \in LoadMessages
         \/ EmptyMotif /\ Shown = "Motyw nie moze byc pusty."
         \/ ~EmptyMotif /\ ~ValidDNA(frame.motif) /\ Shown = MotifAlphabetMessage
         \/ ~EmptyMotif /\ ValidDNA(frame.motif) /\ Shown = "Bin size musi byc > 0."

\* a negative bin_size with a loaded sequence and a valid motif
C6_Witness ==
  /\ InRun
  /\ frame.bin_text = <<"-", "2">>
  /\ frame.seq # <<>>
  /\ Shown = "Bin size musi byc > 0."

\* ------------------------------------------------------------------- C7
\* C7: a run creates or overwrites hits.csv, bins.csv and motif_plot.png, and
\* creates the output directory, only when load, match and aggregate have all
\* succeeded; a run that raises leaves the files of earlier runs as they were.
C7_ExportOnlyAfterSuccess ==
  [][ /\ files' # files => (frame'.line = 156 /\ frame'.exc = "")
      /\ frame'.exc # "" => files' = files ]_vars

\* a failed run after a successful one: the files of the earlier run are there
C7_Witness ==
  /\ InRun
  /\ frame.exc # ""
  /\ out_dir
  /\ hits_csv.exists /\ bins_csv.exists /\ motif_plot_png.exists

\* ------------------------------------------------------------------- C8
\* the 1-based inclusive range of bin i
RangeStart(i, b) == i * b + 1
RangeEnd(i, b, L) == IF (i + 1) * b < L THEN (i + 1) * b ELSE L

C9_LoaderResult ==
  LET t == strip(call.file.text)
      header == IF HasHeader(t) THEN strip(splitlines(t)[1]) ELSE <<>>
  IN (Done("read_sequence_file") /\ t # <<>>) =>
       IF ValidDNA(Body(t))
         THEN /\ ret.exc = ""
              /\ ret.value.header = header
              /\ ret.value.seq = Body(t)
         ELSE ret.exc = SequenceAlphabetMessage

\* ------------------------------------------------------------------ C10
\* the pipeline of run: every hit lies in [0, len(seq) - len(motif)], so its
\* bin lies below ceil(len(seq) / bin_size) and the table has no more rows
C10_PipelinePart ==
  (InRun /\ frame.exc = "") =>
    LET L == Len(frame.seq)
        n == NumBins(L, frame.bin_size)
    IN /\ \A k \in 1..Len(frame.positions0) :
            /\ 0 <= frame.positions0[k]
            /\ frame.positions0[k] <= L - Len(frame.motif)
            /\ L - Len(frame.motif) < L
            /\ frame.positions0[k] \div frame.bin_size < n
       /\ Len(frame.bins_df) <= n

\* segment_counts called with a hit at or beyond ceil(L / b) * b
HitBeyondLastBin ==
  /\ Done("segment_counts")
  /\ call.seq_len >= 1
  /\ call.bin_size >= 1
  /\ \E k \in 1..Len(call.positions0) :
       call.positions0[k] >=
         NumBins(call.seq_len, call.bin_size) * call.bin_size

\* C10 (as claimed): in the pipeline of run the hits stay within the bins; a
\* hit offset >= ceil(L / b) * b passed to segment_counts directly enlarges
\* the table.
C10_DirectCallEnlargesTable ==
  /\ C10_PipelinePart
  /\ HitBeyondLastBin =>
       /\ ret.exc = ""
       /\ Len(ret.value) > NumBins(call.seq_len, call.bin_size)

\* C10 (amended): in the pipeline of run the hits stay within the bins;
\* segment_counts does not check the offsets itself, and a hit offset
\* >= ceil(L / b) * b passed directly makes it raise a ValueError (the count
\* column is longer than the bin_index column) instead of returning a table.
C10_HitsStayWithinBins ==
  /\ C10_PipelinePart
  /\ HitBeyondLastBin =>
       ret.exc = "All arrays must be of the same length"

\* a finished run whose last hit ends at the end of the sequence
C10_Witness ==
  /\ InRun
  /\ frame.exc = ""
  /\ Len(frame.positions0) >= 2
  /\ frame.positions0[Len(frame.positions0)]
       = Len(frame.seq) - Len(frame.motif)

====
